---------------------------- MODULE Spec2Model ----------------------------
(***************************************************************************)
(* A model of the multi-core scheduler library (libscheduler) and of the   *)
(* ordered job store (libpriqueue) it is built on.                         *)
(*                                                                         *)
(* Memory is modelled as a heap `mem` of objects addressed by small        *)
(* integers.  The store `queue` is the sequence of payload pointers held   *)
(* by the linked list, in list order; q->size is Len(queue).               *)
(*                                                                         *)
(* priqueue_remove_at returns the unlinked node_t, not the payload it      *)
(* held (libpriqueue.c:269).  The scheduler casts that pointer to job_t*,  *)
(* so the model keeps, next to the real job_t objects, "node views": a     *)
(* node_t read and written through job_t's field offsets.                  *)
(***************************************************************************)
EXTENDS Integers, Sequences, FiniteSets, TLC

VARIABLES
  scheme,                 \* static scheme_t scheme
  cores,                  \* static unsigned int cores
  queue,                  \* static priqueue_t queue: payload pointers in list order
  mem,                    \* the heap: address -> object, seen through job_t
  core_arr,               \* static job_t **core_arr
  total_waiting_time,     \* static float total_waiting_time
  total_response_time,    \* static float total_response_time
  total_turnaround_time,  \* static float total_turnaround_time
  total_finished_jobs,    \* static unsigned int total_finished_jobs
  now,                    \* the driver's clock: the time of the latest call
  njobs,                  \* number of new_job calls made (the next job id)
  nquanta,                \* number of quantum_expired calls made
  call,                   \* the latest handler call and what it returned
  avg                     \* the latest value returned by an average_* call

vars == <<scheme, cores, queue, mem, core_arr, total_waiting_time,
          total_response_time, total_turnaround_time, total_finished_jobs,
          now, njobs, nquanta, call, avg>>

sched == <<scheme, cores, queue, mem, core_arr, total_waiting_time,
           total_response_time, total_turnaround_time, total_finished_jobs>>

----------------------------------------------------------------------------
(* Bounds of the model *)

MaxCores == 2
MaxJobs == 3
MaxTime == 2
MaxRun == 3
MaxPri == 1
MaxQuanta == 1

\* arrivals in the runs that look at PSJF on MaxCores cores only
MaxJobsPsjf == 4

\* arrivals in the runs that are followed to completion
MaxJobsLive == 2

\* for the store driven on its own: ints in the array, largest int, longest list
MaxPtrs == 3
MaxInt == 2
MaxSize == 3

----------------------------------------------------------------------------
(* Sentinels and sets *)

\* the -1 stored in core_number / start_time / last_updated_time and returned
\* by the handlers for "none"
NONE == -1

\* a null pointer (an empty core slot)
NULL == -2

\* the value of `avg` when the latest call was not an average_* call
NoAverage == [num |-> 0, den |-> 0]

Schemes == {"FCFS", "SJF", "PSJF", "PRI", "PPRI", "RR"}

CoreIds == 0 .. (cores - 1)

\* The running times and priorities the driver draws from.  A field that the
\* scheme's comparer and preemption rule never read is held at one value.
RunningTimes == IF scheme \in {"SJF", "PSJF"} THEN 1 .. MaxRun ELSE {1}

Priorities == IF scheme \in {"PRI", "PPRI"} THEN 0 .. MaxPri ELSE {0}

\* What scheduler_job_finished can read as <<arrival_time, running_time,
\* start_time>> through the node_t it takes for a job_t: the halves of the
\* node's two pointers and the int past its end.  The build and the heap
\* decide the values; the handler asserts that none of them is -1, so a run
\* that continues has read something else.
StatReads == {<<0, 0, 33>>, <<1, 1, 1>>}

\* Values an out-of-bounds read of the int at offset 24 of a 16-byte node_t
\* can produce (start_time of a node view).
SlotGarbage == {NONE, 33}

\* The low 32 bits of the pointer to object p, which is what the id field of
\* a node view holds (offset 0 of node_t is its data pointer).  malloc
\* returns non-null 16-byte aligned addresses, distinct for distinct live
\* objects.
PtrLow32(p) == 16 * (p + 1)

----------------------------------------------------------------------------
(* The ordered job store: libpriqueue *)

\* int fcfs / sjf / psjf / pri / ppri / rr (const void *a, const void *b)
\* of the scheduler and int compare1 / compare2 of the queue test.  The
\* times are floats holding small integers, so the float difference and its
\* conversion to int are exact.
compare1(a, b) == a.value - b.value

compare2(a, b) == b.value - a.value

\* q->comparer(a, b): the function handed to priqueue_init
comparer(s, a, b) ==
  CASE s = "compare1" -> compare1(a, b)
    [] s = "compare2" -> compare2(a, b)
    [] s = "FCFS" -> -1
    [] s = "RR"   -> -1
    [] s = "SJF"  -> IF a.running_time # b.running_time
                       THEN a.running_time - b.running_time
                       ELSE a.arrival_time - b.arrival_time
    [] s = "PSJF" -> IF a.remaining_time # b.remaining_time
                       THEN a.remaining_time - b.remaining_time
                       ELSE a.arrival_time - b.arrival_time
    [] OTHER      -> IF a.priority # b.priority
                       THEN a.priority - b.priority
                       ELSE a.arrival_time - b.arrival_time

\* The scan of priqueue_offer: the number of leading elements of q that the
\* comparer ranks strictly before the new element (heap h holds the fields).
RECURSIVE OfferScan(_, _, _, _, _)
OfferScan(s, h, q, x, index) ==
  IF index < Len(q) /\ comparer(s, h[q[index + 1]], h[x]) < 0
    THEN OfferScan(s, h, q, x, index + 1)
    ELSE index

\* unsigned int priqueue_offer(q, ptr): the index returned
priqueue_offer_index(s, h, q, x) == OfferScan(s, h, q, x, 0)

\* a list that puts every new element at the front
priqueue_offer_Front(s, h, q, x) == <<x>> \o q

\* the list after priqueue_offer(q, ptr)
priqueue_offer(s, h, q, x) ==
  LET index == priqueue_offer_index(s, h, q, x)
  IN  SubSeq(q, 1, index) \o <<x>> \o SubSeq(q, index + 1, Len(q))

\* the list after priqueue_remove_at(q, index)
priqueue_remove_at(q, index) ==
  IF Len(q) <= index THEN q
  ELSE SubSeq(q, 1, index) \o SubSeq(q, index + 2, Len(q))

\* What priqueue_remove_at(q, index) returns: `temp`, the node_t it has
\* unlinked (libpriqueue.c:269), named here by the payload the node holds;
\* NULL when index is out of range.
priqueue_remove_at_temp(q, index) ==
  IF Len(q) <= index THEN NULL ELSE q[index + 1]

\* void *priqueue_peek(q)
priqueue_peek(q) == IF Len(q) = 0 THEN NULL ELSE q[1]

\* the list after priqueue_poll(q)
priqueue_poll(q) == IF Len(q) = 0 THEN q ELSE Tail(q)

\* what priqueue_poll(q) returns
priqueue_poll_data(q) == IF Len(q) = 0 THEN NULL ELSE q[1]

\* a lookup that answers an index past the end with the last element
priqueue_at_Clamped(q, index) ==
  IF Len(q) = 0 THEN NULL
  ELSE IF Len(q) <= index THEN q[Len(q)] ELSE q[index + 1]

\* void *priqueue_at(q, index)
priqueue_at(q, index) == IF Len(q) <= index THEN NULL ELSE q[index + 1]

\* the list after priqueue_remove(q, ptr): every node whose payload the
\* comparer ranks equal to ptr is unlinked
priqueue_remove(s, h, q, ptr) ==
  IF Len(q) = 0 THEN q
  ELSE SelectSeq(q, LAMBDA e : comparer(s, h[e], h[ptr]) # 0)

\* what priqueue_remove(q, ptr) returns
priqueue_remove_removed(s, h, q, ptr) ==
  Len(q) - Len(priqueue_remove(s, h, q, ptr))

\* unsigned int priqueue_size(q)
priqueue_size(q) == Len(q)

----------------------------------------------------------------------------
(* scheduler_start_up *)

Init ==
  /\ scheme \in Schemes
  /\ cores \in 1 .. MaxCores
  /\ queue = << >>
  /\ mem = << >>
  /\ core_arr = [i \in 0 .. (cores - 1) |-> NULL]
  /\ total_waiting_time = 0
  /\ total_response_time = 0
  /\ total_turnaround_time = 0
  /\ total_finished_jobs = 0
  /\ now = 0
  /\ njobs = 0
  /\ nquanta = 0
  /\ call = [op |-> "start_up", core_id |-> NONE, job_number |-> NONE,
             ret |-> NONE]
  /\ avg = NoAverage


----------------------------------------------------------------------------
(* scheduler_new_job *)

\* the job_t built at the top of scheduler_new_job
NewJobRecord(job_number, time, running_time, priority) ==
  [id |-> job_number, arrival_time |-> time, running_time |-> running_time,
   remaining_time |-> running_time, priority |-> priority,
   core_number |-> NONE, start_time |-> NONE, last_updated_time |-> NONE,
   is_node |-> FALSE, data |-> NULL]

\* a PSJF loop that also restarts the clock of first service
PsjfResync_Restart(h, ca, time) ==
  LET running == {ca[i] : i \in DOMAIN ca} \ {NULL}
  IN  [p \in DOMAIN h |->
         IF p \in running
           THEN [h[p] EXCEPT
                   !.remaining_time = @ - (time - h[p].last_updated_time),
                   !.last_updated_time = time,
                   !.start_time = time]
           ELSE h[p]]

\* a PSJF arrival that leaves the running jobs' remaining_time as it was
PsjfResync_None(h, ca, time) == h

\* the PSJF loop over the cores that brings remaining_time up to date
PsjfResync(h, ca, time) ==
  LET running == {ca[i] : i \in DOMAIN ca} \ {NULL}
  IN  [p \in DOMAIN h |->
         IF p \in running
           THEN [h[p] EXCEPT
                   !.remaining_time = @ - (time - h[p].last_updated_time),
                   !.last_updated_time = time]
           ELSE h[p]]

HasIdleCore(ca) == \E i \in DOMAIN ca : ca[i] = NULL

\* a first-fit loop that scans the cores from the highest index down
FirstIdleCore_Highest(ca) ==
  CHOOSE i \in DOMAIN ca :
    /\ ca[i] = NULL
    /\ \A j \in DOMAIN ca : j > i => ca[j] # NULL

\* the first-fit loop: the lowest index whose slot is NULL
FirstIdleCore(ca) ==
  CHOOSE i \in DOMAIN ca :
    /\ ca[i] = NULL
    /\ \A j \in DOMAIN ca : j < i => ca[j] # NULL

\* a preemption branch that PRI enters as well
IsPreemptive_WithPri(s) == s = "PSJF" \/ s = "PPRI" \/ s = "PRI"

\* which schemes enter the preemption branch
IsPreemptive(s) == s = "PSJF" \/ s = "PPRI"

\* a PSJF victim scan that moves on to a later core on an equal
\* remaining_time
RECURSIVE PsjfScan_LastTie(_, _, _, _)
PsjfScan_LastTie(h, ca, i, core_to_run_on) ==
  IF i \notin DOMAIN ca THEN core_to_run_on
  ELSE PsjfScan_LastTie(h, ca, i + 1,
         IF h[ca[i]].remaining_time >= h[ca[core_to_run_on]].remaining_time
           THEN i ELSE core_to_run_on)

\* the PSJF victim scan: core_to_run_on moves only on a strictly larger
\* remaining_time
RECURSIVE PsjfScan(_, _, _, _)
PsjfScan(h, ca, i, core_to_run_on) ==
  IF i \notin DOMAIN ca THEN core_to_run_on
  ELSE PsjfScan(h, ca, i + 1,
         IF h[ca[i]].remaining_time > h[ca[core_to_run_on]].remaining_time
           THEN i ELSE core_to_run_on)

\* a PPRI victim scan that looks at core 0 only
PpriScan_First(h, ca, i, core_to_run_on) == 0

\* the PPRI victim scan: core_to_run_on moves on an equal priority with a
\* later start_time, or on a strictly larger priority
RECURSIVE PpriScan(_, _, _, _)
PpriScan(h, ca, i, core_to_run_on) ==
  IF i \notin DOMAIN ca THEN core_to_run_on
  ELSE PpriScan(h, ca, i + 1,
         IF /\ h[ca[i]].priority = h[ca[core_to_run_on]].priority
            /\ h[ca[i]].start_time > h[ca[core_to_run_on]].start_time
           THEN i
           ELSE IF h[ca[i]].priority > h[ca[core_to_run_on]].priority
                  THEN i ELSE core_to_run_on)

\* the PSJF test written with >=
PsjfPreempts_OrEqual(longestTimeRemaining, remaining_time) ==
  longestTimeRemaining >= remaining_time

\* the PPRI test written with >=
PpriPreempts_OrEqual(maxPriority, priority) ==
  maxPriority >= priority

\* if (longestTimeRemaining > toAdd->remaining_time)
PsjfPreempts(longestTimeRemaining, remaining_time) ==
  longestTimeRemaining > remaining_time

\* if (maxPriority > toAdd->priority)
PpriPreempts(maxPriority, priority) ==
  maxPriority > priority

\* the job started on core i at `time`
Started(job, i, time) ==
  [job EXCEPT !.core_number = i, !.start_time = time,
              !.last_updated_time = time]

\* the heap after the job at ca[victim] is evicted in favour of job a
Evict(h, ca, victim, a, time) ==
  LET v == ca[victim]
      h1 == [h EXCEPT ![v].core_number = NONE,
                      ![v].start_time = IF h[v].start_time = time
                                          THEN NONE ELSE h[v].start_time]
  IN  [h1 EXCEPT ![a] = Started(h1[a], victim, time)]

\* the whole of scheduler_new_job: the heap, list and core table it leaves
\* and the value it returns
new_job(job_number, time, running_time, priority) ==
  LET a      == job_number
      toAdd  == NewJobRecord(job_number, time, running_time, priority)
      h0     == IF scheme = "PSJF" THEN PsjfResync(mem, core_arr, time) ELSE mem
      h1     == h0 @@ (a :> toAdd)
      index  == priqueue_offer_index(scheme, h1, queue, a)
      q1     == priqueue_offer(scheme, h1, queue, a)
      idle   == FirstIdleCore(core_arr)
      victim == IF scheme = "PSJF" THEN PsjfScan(h1, core_arr, 0, 0)
                                   ELSE PpriScan(h1, core_arr, 0, 0)
      wins   == IF scheme = "PSJF"
                  THEN PsjfPreempts(h1[core_arr[victim]].remaining_time,
                                    toAdd.remaining_time)
                  ELSE PpriPreempts(h1[core_arr[victim]].priority,
                                    toAdd.priority)
  IN  IF index < cores /\ HasIdleCore(core_arr)
        THEN [mem |-> [h1 EXCEPT ![a] = Started(toAdd, idle, time)],
              queue |-> q1,
              core_arr |-> [core_arr EXCEPT ![idle] = a],
              ret |-> idle]
      ELSE IF index < cores /\ IsPreemptive(scheme) /\ wins
        THEN [mem |-> Evict(h1, core_arr, victim, a, time),
              queue |-> q1,
              core_arr |-> [core_arr EXCEPT ![victim] = a],
              ret |-> victim]
      ELSE [mem |-> h1, queue |-> q1, core_arr |-> core_arr, ret |-> NONE]

\* a call of scheduler_new_job while fewer than `limit` jobs have arrived
NewJobBelow(limit) ==
  /\ njobs < limit
  /\ \E time \in now .. MaxTime, running_time \in RunningTimes,
        priority \in Priorities :
       LET r == new_job(njobs, time, running_time, priority)
       IN  /\ mem' = r.mem
           /\ queue' = r.queue
           /\ core_arr' = r.core_arr
           /\ now' = time
           /\ call' = [op |-> "new_job", core_id |-> NONE,
                       job_number |-> njobs, ret |-> r.ret]
  /\ njobs' = njobs + 1
  /\ avg' = NoAverage
  /\ UNCHANGED <<scheme, cores, total_waiting_time, total_response_time,
                 total_turnaround_time, total_finished_jobs, nquanta>>

NewJob == NewJobBelow(MaxJobs)

----------------------------------------------------------------------------
(* scheduler_job_finished *)

\* The removal loop of scheduler_job_finished: i runs over the positions of
\* the list, and goes on to i + 1 after a removal at i.  Returns the list
\* left and the payloads whose nodes were removed.
RECURSIVE FinishScan(_, _, _, _, _)
FinishScan(h, q, i, job_number, removed) ==
  IF i >= Len(q) THEN [queue |-> q, removed |-> removed]
  ELSE IF h[q[i + 1]].id = job_number
    THEN FinishScan(h, priqueue_remove_at(q, i), i + 1, job_number,
                    Append(removed, q[i + 1]))
    ELSE FinishScan(h, q, i + 1, job_number, removed)

\* the objects behind payload p: p itself and, for a node view, what its
\* data pointer leads to
RECURSIVE Behind(_, _)
Behind(h, p) ==
  IF p = NULL \/ p \notin DOMAIN h THEN {}
  ELSE {p} \cup Behind(h, h[p].data)

\* a scan that never finds a waiting job
FirstWaiting_None(h, q, i) == Len(q)

\* the position (from 0) of the first element of q whose core_number is -1,
\* or Len(q) if there is none: the scan shared by scheduler_job_finished and
\* scheduler_quantum_expired
RECURSIVE FirstWaiting(_, _, _)
FirstWaiting(h, q, i) ==
  IF i >= Len(q) THEN i
  ELSE IF h[q[i + 1]].core_number = NONE THEN i
  ELSE FirstWaiting(h, q, i + 1)

\* a promotion that stamps start_time every time
Promoted_Restart(job, core_id, time) ==
  [job EXCEPT !.core_number = core_id, !.start_time = time,
              !.last_updated_time = time]

\* a promotion that charges the job one unit of service
Promoted_Charged(job, core_id, time) ==
  [job EXCEPT !.core_number = core_id,
              !.start_time = IF job.start_time = NONE THEN time
                                                      ELSE job.start_time,
              !.last_updated_time = time,
              !.remaining_time = @ - 1]

\* the job found by the scan put on core_id at `time`
Promoted(job, core_id, time) ==
  [job EXCEPT !.core_number = core_id,
              !.start_time = IF job.start_time = NONE THEN time
                                                      ELSE job.start_time,
              !.last_updated_time = time]

\* the promotion loop: heap, core table and returned id
Promote(h, q, ca, core_id, time) ==
  LET i == FirstWaiting(h, q, 0)
  IN  IF i < Len(q)
        THEN [mem |-> [h EXCEPT ![q[i + 1]] = Promoted(h[q[i + 1]], core_id, time)],
              core_arr |-> [ca EXCEPT ![core_id] = q[i + 1]],
              ret |-> h[q[i + 1]].id]
        ELSE [mem |-> h, core_arr |-> ca, ret |-> NONE]

\* The whole of scheduler_job_finished.  The job_t* it folds into the sums
\* is the node_t returned by priqueue_remove_at: arrival_time, running_time
\* and start_time are read from the node's pointers and from past its end,
\* and come out as a, r and s.  free() releases that node; the payload it
\* held is never freed, but nothing refers to it any more, so it leaves the
\* heap of the model together with whatever lies behind it.
job_finished(core_id, job_number, time, a, r, s) ==
  LET ca1  == [core_arr EXCEPT ![core_id] = NULL]
      scan == FinishScan(mem, queue, 0, job_number, << >>)
      n    == Len(scan.removed)
      gone == UNION {Behind(mem, scan.removed[k]) : k \in 1 .. n}
      h1   == [p \in DOMAIN mem \ gone |-> mem[p]]
      pr   == Promote(h1, scan.queue, ca1, core_id, time)
  IN  [mem |-> pr.mem, queue |-> scan.queue, core_arr |-> pr.core_arr,
       total_waiting_time |-> total_waiting_time + n * (time - a - r),
       total_response_time |-> total_response_time + n * (s - a),
       total_turnaround_time |-> total_turnaround_time + n * (time - a),
       total_finished_jobs |-> total_finished_jobs + n,
       ret |-> pr.ret]

JobFinished ==
  \E core_id \in CoreIds, time \in now .. MaxTime, g \in StatReads :
    /\ core_arr[core_id] # NULL
    /\ LET job_number == mem[core_arr[core_id]].id
           f == job_finished(core_id, job_number, time, g[1], g[2], g[3])
       IN  /\ mem' = f.mem
           /\ queue' = f.queue
           /\ core_arr' = f.core_arr
           /\ total_waiting_time' = f.total_waiting_time
           /\ total_response_time' = f.total_response_time
           /\ total_turnaround_time' = f.total_turnaround_time
           /\ total_finished_jobs' = f.total_finished_jobs
           /\ now' = time
           /\ call' = [op |-> "job_finished", core_id |-> core_id,
                       job_number |-> job_number, ret |-> f.ret]
    /\ avg' = NoAverage
    /\ UNCHANGED <<scheme, cores, njobs, nquanta>>

----------------------------------------------------------------------------
(* scheduler_quantum_expired *)

\* the address of the node unlinked by the k-th quantum_expired call
NodeAddr(k) == MaxJobs + k

\* the position (from 0) of the first element of q whose id is `id`, or
\* Len(q)
RECURSIVE FirstWithId(_, _, _, _)
FirstWithId(h, q, i, id) ==
  IF i >= Len(q) THEN i
  ELSE IF h[q[i + 1]].id = id THEN i
  ELSE FirstWithId(h, q, i + 1, id)

\* The node_t that held payload p, as scheduler_quantum_expired sees it
\* through a job_t*: id is the low half of the data pointer, core_number is
\* the -1 the handler has just stored at offset 20, start_time is whatever
\* lies at offset 24.  The fields the round-robin comparer and scans never
\* read are 0.
NodeView(p, start_time) ==
  [id |-> PtrLow32(p), arrival_time |-> 0, running_time |-> 0,
   remaining_time |-> 0, priority |-> 0,
   core_number |-> NONE, start_time |-> start_time,
   last_updated_time |-> start_time,
   is_node |-> TRUE, data |-> p]

\* the requeue loop of scheduler_quantum_expired: what is offered back to
\* the list is the pointer priqueue_remove_at returned
Requeue(h, q, ca, core_id, n, start_time) ==
  LET i == FirstWithId(h, q, 0, h[ca[core_id]].id)
  IN  IF i < Len(q)
        THEN LET h1 == h @@ (n :> NodeView(q[i + 1], start_time))
             IN  [mem |-> h1,
                  queue |-> priqueue_offer(scheme, h1,
                                           priqueue_remove_at(q, i), n),
                  core_arr |-> [ca EXCEPT ![core_id] = NULL]]
        ELSE [mem |-> h, queue |-> q, core_arr |-> ca]

\* The whole of scheduler_quantum_expired.  The stores through the node_t*
\* land past the node's 16 bytes; a run in which they break the allocator
\* ends there and adds no state.
quantum_expired(core_id, time, n, start_time) ==
  LET rq == Requeue(mem, queue, core_arr, core_id, n, start_time)
      pr == Promote(rq.mem, rq.queue, rq.core_arr, core_id, time)
  IN  [mem |-> pr.mem, queue |-> rq.queue, core_arr |-> pr.core_arr,
       ret |-> pr.ret]

QuantumExpired ==
  /\ scheme = "RR"
  /\ nquanta < MaxQuanta
  /\ \E core_id \in CoreIds, time \in now .. MaxTime,
        start_time \in SlotGarbage :
       /\ core_arr[core_id] # NULL
       /\ LET x == quantum_expired(core_id, time, NodeAddr(nquanta), start_time)
          IN  /\ mem' = x.mem
              /\ queue' = x.queue
              /\ core_arr' = x.core_arr
              /\ now' = time
              /\ call' = [op |-> "quantum_expired", core_id |-> core_id,
                          job_number |-> NONE, ret |-> x.ret]
  /\ nquanta' = nquanta + 1
  /\ avg' = NoAverage
  /\ UNCHANGED <<scheme, cores, total_waiting_time, total_response_time,
                 total_turnaround_time, total_finished_jobs, njobs>>

----------------------------------------------------------------------------
(* scheduler_average_waiting_time / _turnaround_time / _response_time *)

\* the quotient without the test for zero finished jobs: 0.0 / 0 is NaN
Average_NoGuard(total, finished) == [num |-> total, den |-> finished]

\* total_finished_jobs == 0 ? 0.0 : total / (float)total_finished_jobs,
\* the quotient kept as a fraction
Average(total, finished) ==
  IF finished = 0 THEN [num |-> 0, den |-> 1]
                  ELSE [num |-> total, den |-> finished]

\* whether the float returned is 0.0 (a fraction over 0 is NaN, not 0.0)
IsZero(x) == x.num = 0 /\ x.den # 0

AverageCall(op, total) ==
  /\ avg' = Average(total, total_finished_jobs)
  /\ call' = [op |-> op, core_id |-> NONE, job_number |-> NONE,
              ret |-> NONE]
  /\ UNCHANGED <<sched, now, njobs, nquanta>>

AverageWaitingTime == AverageCall("average_waiting_time", total_waiting_time)

AverageTurnaroundTime ==
  AverageCall("average_turnaround_time", total_turnaround_time)

AverageResponseTime ==
  AverageCall("average_response_time", total_response_time)

----------------------------------------------------------------------------

Next ==
  \/ NewJob
  \/ JobFinished
  \/ QuantumExpired
  \/ AverageWaitingTime
  \/ AverageTurnaroundTime
  \/ AverageResponseTime

Spec == Init /\ [][Next]_vars

----------------------------------------------------------------------------
(* PSJF on MaxCores cores with one more arrival.  quantum_expired is not   *)
(* called under PSJF, and the average_* calls change nothing.              *)

InitPsjf == Init /\ scheme = "PSJF" /\ cores = MaxCores

NewJobPsjf == NewJobBelow(MaxJobsPsjf)

NextPsjf ==
  \/ NewJobPsjf
  \/ JobFinished

SpecPsjf == InitPsjf /\ [][NextPsjf]_vars

----------------------------------------------------------------------------
(* Runs to completion.  Here the run may also end inside the allocator.    *)
(* When scheduler_quantum_expired or scheduler_job_finished promotes an    *)
(* entry that is a node_t, `job->last_updated_time = time` lands at offset *)
(* 28 of a 16-byte allocation, in the size field of the next heap chunk.   *)
(* A non-zero time changes that size, and the free() of the node in a      *)
(* later scheduler_job_finished may then abort the process (glibc: "double *)
(* free or corruption") or go through, as the allocator happens to check.  *)

\* the process has not aborted
Alive == call.op # "abort"

\* scheduler_job_finished on a core whose entry is a node_t with a clobbered
\* neighbour: free() aborts
JobFinishedAborts ==
  \E core_id \in CoreIds :
    /\ core_arr[core_id] # NULL
    /\ mem[core_arr[core_id]].is_node
    /\ mem[core_arr[core_id]].last_updated_time \in 1 .. MaxTime
    /\ call' = [op |-> "abort", core_id |-> core_id,
                job_number |-> mem[core_arr[core_id]].id, ret |-> NONE]
    /\ avg' = NoAverage
    /\ UNCHANGED <<sched, now, njobs, nquanta>>

\* scheduler_new_job for the arrivals of a run to completion
NewJobLive == NewJobBelow(MaxJobsLive)

\* the driver's calls; the average_* calls change nothing and are left out
NextLive ==
  \/ Alive /\ NewJobLive
  \/ Alive /\ JobFinished
  \/ Alive /\ QuantumExpired
  \/ Alive /\ JobFinishedAborts

\* the driver delivers job_finished for a core that stays busy
SpecLive ==
  /\ Init
  /\ [][NextLive]_vars
  /\ WF_vars(Alive /\ (JobFinished \/ JobFinishedAborts))

----------------------------------------------------------------------------
(* The store on its own, driven as queuetest.c drives it.                  *)
(* The priqueue_t under test is `queue`.  The payloads offered are the     *)
(* addresses of the ints of the array `values`: &values[i] is address i,   *)
(* and mem[i].value is the int stored there.  `scheme` names the comparer  *)
(* handed to priqueue_init and `call` records the latest library call:     *)
(* its arguments, the value returned and what kind of thing that value is. *)

ValuePtrs == 0 .. (MaxPtrs - 1)

Comparers == {"compare1", "compare2"}

\* everything the library calls leave alone
qframe == <<scheme, cores, mem, core_arr, total_waiting_time,
            total_response_time, total_turnaround_time,
            total_finished_jobs, now, njobs, nquanta, avg>>

\* the record of a library call
QCall(op, ptr, index, ret, kind) ==
  [op |-> op, ptr |-> ptr, index |-> index, ret |-> ret, kind |-> kind]

\* what a returned payload pointer is
PtrKind(p) == IF p = NULL THEN "null" ELSE "payload"

\* the array filled, then priqueue_init(&q, comparer)
QueueInit ==
  /\ scheme \in Comparers
  /\ mem \in [ValuePtrs -> [value : 0 .. MaxInt]]
  /\ queue = << >>
  /\ call = QCall("priqueue_init", NULL, NONE, NONE, "void")
  /\ cores = 1
  /\ core_arr = [i \in {0} |-> NULL]
  /\ total_waiting_time = 0
  /\ total_response_time = 0
  /\ total_turnaround_time = 0
  /\ total_finished_jobs = 0
  /\ now = 0
  /\ njobs = 0
  /\ nquanta = 0
  /\ avg = NoAverage

PriqueueOffer ==
  /\ Len(queue) < MaxSize
  /\ \E ptr \in ValuePtrs :
       /\ queue' = priqueue_offer(scheme, mem, queue, ptr)
       /\ call' = QCall("priqueue_offer", ptr, NONE,
                        priqueue_offer_index(scheme, mem, queue, ptr), "uint")
  /\ UNCHANGED qframe

PriqueuePeek ==
  /\ call' = QCall("priqueue_peek", NULL, NONE, priqueue_peek(queue),
                   PtrKind(priqueue_peek(queue)))
  /\ UNCHANGED <<queue, qframe>>

PriqueuePoll ==
  /\ queue' = priqueue_poll(queue)
  /\ call' = QCall("priqueue_poll", NULL, NONE, priqueue_poll_data(queue),
                   PtrKind(priqueue_poll_data(queue)))
  /\ UNCHANGED qframe

PriqueueAt ==
  /\ \E index \in 0 .. MaxSize :
       call' = QCall("priqueue_at", NULL, index, priqueue_at(queue, index),
                     PtrKind(priqueue_at(queue, index)))
  /\ UNCHANGED <<queue, qframe>>

\* ptr is dereferenced by the comparer unless the list is empty, so NULL is
\* passed only then (as the test does)
PriqueueRemove ==
  /\ \E ptr \in ValuePtrs \cup {NULL} :
       /\ ptr = NULL => Len(queue) = 0
       /\ queue' = priqueue_remove(scheme, mem, queue, ptr)
       /\ call' = QCall("priqueue_remove", ptr, NONE,
                        priqueue_remove_removed(scheme, mem, queue, ptr),
                        "uint")
  /\ UNCHANGED qframe

PriqueueRemoveAt ==
  /\ \E index \in 0 .. MaxSize :
       /\ queue' = priqueue_remove_at(queue, index)
       /\ call' = QCall("priqueue_remove_at", NULL, index,
                        priqueue_remove_at_temp(queue, index),
                        IF priqueue_remove_at_temp(queue, index) = NULL
                          THEN "null" ELSE "node")
  /\ UNCHANGED qframe

PriqueueSize ==
  /\ call' = QCall("priqueue_size", NULL, NONE, priqueue_size(queue), "uint")
  /\ UNCHANGED <<queue, qframe>>

\* every node is unlinked by priqueue_remove_at(q, 0) and freed
PriqueueDestroy ==
  /\ queue' = << >>
  /\ call' = QCall("priqueue_destroy", NULL, NONE, NONE, "void")
  /\ UNCHANGED qframe

QueueNext ==
  \/ PriqueueOffer
  \/ PriqueuePeek
  \/ PriqueuePoll
  \/ PriqueueAt
  \/ PriqueueRemove
  \/ PriqueueRemoveAt
  \/ PriqueueSize
  \/ PriqueueDestroy

SpecQueue == QueueInit /\ [][QueueNext]_vars

----------------------------------------------------------------------------
(* Vocabulary of the properties *)

\* the real job_t objects that have arrived and have not been reported done
LiveJobs == {p \in DOMAIN mem : ~mem[p].is_node}

InStore(q, p) == \E k \in 1 .. Len(q) : q[k] = p

\* zero-based rank of p in list q
Rank(q, p) == (CHOOSE k \in 1 .. Len(q) : q[k] = p) - 1

AllBusy(ca) == \A i \in DOMAIN ca : ca[i] # NULL

\* the step is a call of scheduler_new_job / _job_finished / _quantum_expired
IsNewJobStep == call'.op = "new_job" /\ njobs' = njobs + 1

IsJobFinishedStep ==
  call'.op = "job_finished" /\ total_finished_jobs' # total_finished_jobs

IsQuantumStep == call'.op = "quantum_expired" /\ nquanta' = nquanta + 1

\* no object that existed before the step has a different core_number after
CoreNumbersKept ==
  \A p \in DOMAIN mem :
    p \in DOMAIN mem' /\ mem'[p].core_number = mem[p].core_number

----------------------------------------------------------------------------
(* C1 *)

\* C1: every live job is either waiting (core_number none, in no slot) or
\* running (core_number = i and slot i refers to it); no job is in two
\* slots; every non-empty slot refers to a live job that is in the store.
C1_Partition ==
  /\ \A j \in LiveJobs :
       \/ /\ mem[j].core_number = NONE
          /\ \A i \in CoreIds : core_arr[i] # j
       \/ /\ mem[j].core_number \in CoreIds
          /\ core_arr[mem[j].core_number] = j
  /\ \A i1, i2 \in CoreIds :
       core_arr[i1] # NULL /\ core_arr[i1] = core_arr[i2] => i1 = i2
  /\ \A i \in CoreIds :
       core_arr[i] # NULL =>
         core_arr[i] \in LiveJobs /\ InStore(queue, core_arr[i])

----------------------------------------------------------------------------
(* C2 *)

NonPreemptive == {"FCFS", "SJF", "PRI", "RR"}

\* C2: under FCFS, SJF, PRI and RR a new_job call made while every core is
\* busy returns -1 and leaves the core table and every existing job's
\* core_number as they were.
C2_NoDisplacement ==
  [][(IsNewJobStep /\ scheme \in NonPreemptive /\ AllBusy(core_arr))
       => (call'.ret = NONE /\ core_arr' = core_arr /\ CoreNumbersKept)]_vars

\* a job has just arrived under a non-preemptive scheme, landed at rank 0
\* ahead of the running jobs, and was turned away because every core is busy
C2_Witness ==
  /\ call.op = "new_job"
  /\ scheme \in NonPreemptive
  /\ AllBusy(core_arr)
  /\ call.ret = NONE
  /\ Len(queue) > cores
  /\ queue[1] = call.job_number
  /\ mem[call.job_number].core_number = NONE

----------------------------------------------------------------------------
(* C3 *)

\* the largest remaining_time, after the step, among the jobs that were
\* running before it
LongestRunning ==
  LET rem == {mem'[core_arr[i]].remaining_time : i \in CoreIds}
  IN  CHOOSE m \in rem : \A x \in rem : x <= m

\* C3: under PSJF a new_job call made while every core is busy evicts a
\* running job only if the largest remaining_time among the running jobs,
\* brought up to the arrival time, is strictly greater than the new job's;
\* otherwise nothing is evicted and the call returns -1.
C3_PsjfStrict ==
  [][(IsNewJobStep /\ scheme = "PSJF" /\ AllBusy(core_arr))
       => LET newRem == mem'[call'.job_number].remaining_time
          IN  /\ (call'.ret # NONE \/ core_arr' # core_arr)
                   => LongestRunning > newRem
              /\ LongestRunning <= newRem
                   => /\ call'.ret = NONE
                      /\ core_arr' = core_arr
                      /\ CoreNumbersKept]_vars

\* a job has just arrived under PSJF whose remaining_time equals the largest
\* remaining_time on the cores, and it was not given a core
C3_Witness ==
  /\ call.op = "new_job"
  /\ scheme = "PSJF"
  /\ AllBusy(core_arr)
  /\ call.ret = NONE
  /\ mem[call.job_number].core_number = NONE
  /\ \E i \in CoreIds :
       mem[core_arr[i]].remaining_time = mem[call.job_number].remaining_time
  /\ \A i \in CoreIds :
       mem[core_arr[i]].remaining_time <= mem[call.job_number].remaining_time
  /\ \E i \in CoreIds : mem[core_arr[i]].remaining_time
                          < mem[core_arr[i]].running_time

----------------------------------------------------------------------------
(* C4 *)

\* C4: under PPRI a new_job call made while every core is busy evicts a
\* running job only when that job's priority value is strictly greater
\* than the new job's; when no running job has a strictly greater priority
\* value nothing is evicted and the call returns -1.
C4_PpriStrict ==
  [][(IsNewJobStep /\ scheme = "PPRI" /\ AllBusy(core_arr))
       => LET newPri == mem'[call'.job_number].priority
          IN  /\ \A i \in CoreIds :
                   core_arr'[i] # core_arr[i]
                     => mem[core_arr[i]].priority > newPri
              /\ (\A i \in CoreIds : mem[core_arr[i]].priority <= newPri)
                   => /\ call'.ret = NONE
                      /\ core_arr' = core_arr
                      /\ CoreNumbersKept]_vars

\* the job that has just arrived under PPRI found every core busy and took
\* the core of a job of strictly greater priority value, which now waits
C4_Witness ==
  /\ call.op = "new_job"
  /\ scheme = "PPRI"
  /\ call.ret # NONE
  /\ njobs = cores + 1
  /\ Len(queue) = njobs
  /\ core_arr[call.ret] = call.job_number
  /\ \E j \in LiveJobs :
       /\ mem[j].core_number = NONE
       /\ mem[j].priority > mem[call.job_number].priority

----------------------------------------------------------------------------
(* C5 *)

\* the jobs that sit in list q with core_number none in heap h
Waiting(h, q) == {w \in DOMAIN h : InStore(q, w) /\ h[w].core_number = NONE}

\* C5: under RR the job requeued by quantum_expired is in the store after
\* the call, behind every job that was waiting when the call was made, and
\* a job that arrives is placed behind everything already in the store.
C5_RequeueFifo ==
  [][/\ IsQuantumStep
          => LET p == core_arr[call'.core_id]
             IN  /\ InStore(queue', p)
                 /\ \A w \in Waiting(mem, queue) :
                      InStore(queue', w) /\ Rank(queue', w) < Rank(queue', p)
     /\ (IsNewJobStep /\ scheme = "RR")
          => queue' = Append(queue, call'.job_number)]_vars

----------------------------------------------------------------------------
(* C6 *)

AverageOps ==
  {"average_waiting_time", "average_turnaround_time", "average_response_time"}

\* the running sum that the average call named op reports on
TotalOf(op) ==
  CASE op = "average_waiting_time"    -> total_waiting_time
    [] op = "average_turnaround_time" -> total_turnaround_time
    [] OTHER                          -> total_response_time

\* C6 as amended: each average call returns 0.0 when no job has finished and
\* otherwise the running sum divided by the number of finished jobs (which
\* is 0.0 when the sum is 0); the call changes no scheduler state.
C6_Averages ==
  [][call'.op \in AverageOps
       => /\ UNCHANGED sched
          /\ total_finished_jobs = 0 => IsZero(avg')
          /\ total_finished_jobs # 0
               => /\ avg'.den # 0
                  /\ avg'.num * total_finished_jobs
                       = TotalOf(call'.op) * avg'.den]_vars

\* C6 as stated: an average call returns 0.0 exactly when no job has finished
C6_ZeroIffNoneFinished ==
  call.op \in AverageOps => (IsZero(avg) <=> total_finished_jobs = 0)

\* an average call has returned 0.0 although jobs have finished
C6_Witness ==
  /\ call.op \in AverageOps
  /\ total_finished_jobs > 0
  /\ IsZero(avg)
  /\ TotalOf(call.op) = 0

----------------------------------------------------------------------------
(* C7 *)

\* positions (from 1) of the elements of q that wait in heap h
WaitingAt(h, q) == {k \in 1 .. Len(q) : h[q[k]].core_number = NONE}

Lowest(S) == CHOOSE k \in S : \A m \in S : k <= m

\* C7: job_finished returns the id of the first job left in the store whose
\* core_number is none and makes that job run on core_id; if there is none
\* it returns -1 and leaves slot core_id empty.
C7_FinishPromotes ==
  [][IsJobFinishedStep
       => LET c == call'.core_id
              w == WaitingAt(mem, queue')
          IN  IF w = {}
                THEN call'.ret = NONE /\ core_arr'[c] = NULL
                ELSE LET j == queue'[Lowest(w)]
                     IN  /\ j \in LiveJobs
                         /\ call'.ret = mem[j].id
                         /\ core_arr'[c] = j
                         /\ mem'[j].core_number = c
                         /\ mem'[j].last_updated_time = now'
                         /\ mem'[j].start_time =
                              IF mem[j].start_time = NONE
                                THEN now' ELSE mem[j].start_time]_vars

----------------------------------------------------------------------------
(* C8 *)

\* C8: a job_finished call adds one to total_finished_jobs and adds to the
\* three sums the values computed from the finished job's own fields.
C8_StatsFromJob ==
  [][IsJobFinishedStep
       => LET j == mem[core_arr[call'.core_id]]
          IN  /\ total_finished_jobs' = total_finished_jobs + 1
              /\ total_waiting_time' = total_waiting_time
                   + (now' - j.arrival_time - j.running_time)
              /\ total_response_time' = total_response_time
                   + (j.start_time - j.arrival_time)
              /\ total_turnaround_time' = total_turnaround_time
                   + (now' - j.arrival_time)]_vars

----------------------------------------------------------------------------
(* C9 *)

\* C9: when new_job inserts the job at a rank below the core count and a
\* core slot is empty, the job gets the empty slot of lowest index, its
\* start times are the arrival time, nothing else changes core, and the
\* call returns that index.
C9_FirstFit ==
  [][(/\ IsNewJobStep
      /\ ~AllBusy(core_arr)
      /\ Rank(queue', call'.job_number) < cores)
       => LET a == call'.job_number
              idle == {i \in CoreIds : core_arr[i] = NULL}
              i0 == Lowest(idle)
          IN  /\ call'.ret = i0
              /\ core_arr' = [core_arr EXCEPT ![i0] = a]
              /\ mem'[a].core_number = i0
              /\ mem'[a].start_time = now'
              /\ mem'[a].last_updated_time = now'
              /\ CoreNumbersKept]_vars

\* the job that has just arrived was given core 0 while core 1 is empty too
\* and another job is in the store
C9_Witness ==
  /\ call.op = "new_job"
  /\ call.ret # NONE
  /\ core_arr[call.ret] = call.job_number
  /\ mem[call.job_number].start_time = now
  /\ \E i \in CoreIds : i > call.ret /\ core_arr[i] = NULL
  /\ \A i \in CoreIds : i < call.ret => core_arr[i] # NULL
  /\ total_finished_jobs > 0

----------------------------------------------------------------------------
(* C10 *)

\* C10: under RR quantum_expired clears the core_number of the job that was
\* on core_id and requeues it at the back of the store; a job that was
\* already waiting is promoted to core_id and its id returned, with the
\* expired job waiting behind it; with nobody waiting the expired job itself
\* is promoted again.
C10_QuantumRequeues ==
  [][IsQuantumStep
       => LET c == call'.core_id
              p == core_arr[c]
              w == WaitingAt(mem, queue)
          IN  /\ Len(queue') = Len(queue)
              /\ queue'[Len(queue')] = p
              /\ IF w = {}
                   THEN /\ call'.ret = mem[p].id
                        /\ core_arr'[c] = p
                        /\ mem'[p].core_number = c
                   ELSE LET j == queue[Lowest(w)]
                        IN  /\ call'.ret = mem[j].id
                            /\ core_arr'[c] = j
                            /\ mem'[j].core_number = c
                            /\ mem'[p].core_number = NONE]_vars

----------------------------------------------------------------------------
(* C11 *)

\* the payloads held by list q
Stored(q) == {q[k] : k \in 1 .. Len(q)}

\* C11: after every handler the store holds exactly the jobs that have
\* arrived and have not been reported finished, each exactly once; its size
\* is the number of new_job calls minus the number of jobs finished; every
\* core slot refers to such a job; and the requeue of quantum_expired leaves
\* the set of stored jobs as it was.
C11_StoreHoldsLiveJobs ==
  /\ [](/\ Stored(queue) = LiveJobs
        /\ \A j \in LiveJobs :
             Cardinality({k \in 1 .. Len(queue) : queue[k] = j}) = 1
        /\ Len(queue) = njobs - total_finished_jobs
        /\ \A i \in CoreIds : core_arr[i] # NULL => core_arr[i] \in LiveJobs)
  /\ [][IsQuantumStep => Stored(queue') = Stored(queue)]_vars

----------------------------------------------------------------------------
(* C12 *)

\* C12: under PSJF every new_job call takes the time elapsed since its
\* last_updated_time off the remaining_time of each running job and sets
\* that job's last_updated_time to the arrival time; the remaining_time of
\* waiting jobs is not changed; and the new job's rank is the one the
\* comparer gives with the updated values.
C12_PsjfResync ==
  [][(IsNewJobStep /\ scheme = "PSJF")
       => LET a == call'.job_number
              running == {core_arr[i] : i \in CoreIds} \ {NULL}
              r == Rank(queue', a)
          IN  /\ \A p \in running :
                   /\ mem'[p].remaining_time = mem[p].remaining_time
                        - (now' - mem[p].last_updated_time)
                   /\ mem'[p].last_updated_time = now'
              /\ \A p \in DOMAIN mem \ running :
                   mem'[p].remaining_time = mem[p].remaining_time
              /\ \A k \in 1 .. r :
                   comparer("PSJF", mem'[queue'[k]], mem'[a]) < 0
              /\ r + 2 <= Len(queue')
                   => comparer("PSJF", mem'[queue'[r + 2]], mem'[a]) >= 0]_vars

\* a job that had run for a while was brought up to date by a PSJF arrival
\* and, still having more left than the arrival's running time, lost its
\* core to it and now waits
C12_Witness ==
  /\ call.op = "new_job"
  /\ scheme = "PSJF"
  /\ call.ret # NONE
  /\ core_arr[call.ret] = call.job_number
  /\ \E v \in LiveJobs :
       /\ mem[v].core_number = NONE
       /\ mem[v].last_updated_time = now
       /\ mem[v].start_time < now
       /\ mem[v].remaining_time = mem[v].running_time - (now - mem[v].start_time)
       /\ mem[v].remaining_time > mem[call.job_number].remaining_time

----------------------------------------------------------------------------
(* C13 *)

\* the step is a call of the named library function
IsCall(op) == call'.op = op

\* positions (from 1) of the elements of q that the comparer ranks equal to
\* payload x
EqualAt(q, x) ==
  {k \in 1 .. Len(q) : comparer(scheme, mem[q[k]], mem[x]) = 0}

\* C13: priqueue_offer places the new element after every element already
\* in the store that the comparer ranks equal to it.
C13_OfferStable ==
  [][IsCall("priqueue_offer")
       => \A k \in EqualAt(queue, call'.ptr) : k <= call'.ret]_vars

----------------------------------------------------------------------------
(* C14 *)

\* C14: priqueue_offer(x) returns the position r at which x landed: at(r)
\* is x, the size has grown by one, the elements before r are as they were
\* and those from r on have moved one place later in the same order; a key
\* above all those stored lands at the end, a key below all of them at 0.
C14_OfferPosition ==
  [][IsCall("priqueue_offer")
       => LET r == call'.ret
              x == call'.ptr
          IN  /\ r \in 0 .. Len(queue)
              /\ priqueue_at(queue', r) = x
              /\ priqueue_size(queue') = priqueue_size(queue) + 1
              /\ \A k \in 0 .. (Len(queue) - 1) :
                   priqueue_at(queue, k)
                     = priqueue_at(queue', IF k < r THEN k ELSE k + 1)
              /\ (\A k \in 1 .. Len(queue) :
                    comparer(scheme, mem[queue[k]], mem[x]) < 0)
                   => r = Len(queue)
              /\ (\A k \in 1 .. Len(queue) :
                    comparer(scheme, mem[queue[k]], mem[x]) > 0)
                   => r = 0]_vars

\* an element has just been offered and landed at position 1 of 3, strictly
\* between a smaller and a larger one
C14_Witness ==
  /\ call.op = "priqueue_offer"
  /\ call.ret = 1
  /\ Len(queue) = 3
  /\ queue[2] = call.ptr
  /\ comparer(scheme, mem[queue[1]], mem[queue[2]]) < 0
  /\ comparer(scheme, mem[queue[2]], mem[queue[3]]) < 0

----------------------------------------------------------------------------
(* C15 *)

\* C15: priqueue_remove_at(index) with index below the size returns the
\* payload that at(index) returned before the call, the size goes down by
\* one and the later elements move up one place.
C15_RemoveAtReturnsPayload ==
  [][(IsCall("priqueue_remove_at") /\ call'.index < Len(queue))
       => /\ call'.kind = "payload"
          /\ call'.ret = priqueue_at(queue, call'.index)
          /\ priqueue_size(queue') = priqueue_size(queue) - 1
          /\ \A k \in 0 .. (Len(queue') - 1) :
               priqueue_at(queue', k)
                 = priqueue_at(queue, IF k < call'.index THEN k ELSE k + 1)]_vars

----------------------------------------------------------------------------
(* C16 *)

\* C16: priqueue_remove(ptr) removes exactly the entries whose payload is
\* ptr itself, keeps every other entry (those that only compare equal to
\* ptr included) and returns the number of entries removed.
C16_RemoveByIdentity ==
  [][IsCall("priqueue_remove")
       => /\ queue' = SelectSeq(queue, LAMBDA e : e # call'.ptr)
          /\ call'.ret = Len(queue) - Len(queue')]_vars

----------------------------------------------------------------------------
(* C17 *)

\* C17: peek and poll on an empty store return NULL, at and remove_at with
\* an index not below the size return NULL, remove on an empty store returns
\* 0, the size of an empty store is 0, and none of these calls changes the
\* store.
C17_AbsentElement ==
  [][/\ (call'.op \in {"priqueue_peek", "priqueue_poll"} /\ Len(queue) = 0)
          => call'.ret = NULL /\ call'.kind = "null" /\ queue' = queue
     /\ (/\ call'.op \in {"priqueue_at", "priqueue_remove_at"}
         /\ call'.index >= Len(queue))
          => call'.ret = NULL /\ call'.kind = "null" /\ queue' = queue
     /\ (call'.op \in {"priqueue_remove", "priqueue_size"} /\ Len(queue) = 0)
          => call'.ret = 0 /\ queue' = queue]_vars

\* priqueue_at has just been asked for the element one past the end of a
\* store of three and answered NULL
C17_Witness ==
  /\ call.op = "priqueue_at"
  /\ Len(queue) = MaxSize
  /\ call.index = Len(queue)
  /\ call.ret = NULL
  /\ call.kind = "null"

----------------------------------------------------------------------------
(* C18 *)

Highest(S) == CHOOSE m \in S : \A x \in S : x <= m

\* the step is a new_job call that found every core busy and took a core
IsPreemptionStep == IsNewJobStep /\ AllBusy(core_arr) /\ call'.ret # NONE

\* C18: under PPRI the job evicted by a preemption is the running job of
\* numerically largest priority, and among several of that priority the one
\* on the lowest core index.
C18_PpriVictim ==
  [][(IsPreemptionStep /\ scheme = "PPRI")
       => LET maxPriority ==
                Highest({mem[core_arr[i]].priority : i \in CoreIds})
              v == Lowest({i \in CoreIds :
                             mem[core_arr[i]].priority = maxPriority})
          IN  /\ call'.ret = v
              /\ core_arr' = [core_arr EXCEPT ![v] = call'.job_number]
              /\ mem'[core_arr[v]].core_number = NONE]_vars

----------------------------------------------------------------------------
(* C19 *)

\* C19: under PSJF the job evicted by a preemption is the running job with
\* the largest remaining_time (brought up to the arrival time), and among
\* several of them the one on the lowest core index; its core_number
\* becomes -1, the new job takes that core with start_time and
\* last_updated_time equal to the arrival time, nothing else changes core,
\* and the call returns that core index.
C19_PsjfVictim ==
  [][(IsPreemptionStep /\ scheme = "PSJF")
       => LET a == call'.job_number
              longest == Highest({mem'[core_arr[i]].remaining_time :
                                    i \in CoreIds})
              v == Lowest({i \in CoreIds :
                             mem'[core_arr[i]].remaining_time = longest})
          IN  /\ call'.ret = v
              /\ core_arr' = [core_arr EXCEPT ![v] = a]
              /\ mem'[core_arr[v]].core_number = NONE
              /\ \A i \in CoreIds \ {v} : mem'[core_arr[i]].core_number = i
              /\ mem'[a].core_number = v
              /\ mem'[a].start_time = now'
              /\ mem'[a].last_updated_time = now']_vars

\* a PSJF arrival found two running jobs with the same remaining_time,
\* larger than its own, and took core 0; the job it evicted waits
C19_Witness ==
  /\ call.op = "new_job"
  /\ scheme = "PSJF"
  /\ cores = 2
  /\ call.ret = 0
  /\ core_arr[0] = call.job_number
  /\ \E w \in LiveJobs :
       /\ mem[w].core_number = NONE
       /\ mem[w].last_updated_time = now
       /\ mem[w].remaining_time = mem[core_arr[1]].remaining_time
       /\ mem[w].remaining_time > mem[call.job_number].remaining_time

----------------------------------------------------------------------------
(* C20 *)

\* C20: a new_job call whose job lands at a rank not below the core count
\* returns -1, leaves the core table and every existing job's core_number
\* and start_time as they were, and leaves the new job waiting in the store;
\* apart from that only the PSJF update of the running jobs' remaining_time
\* and last_updated_time changes anything.
C20_BeyondCores ==
  [][(IsNewJobStep /\ Rank(queue', call'.job_number) >= cores)
       => LET a == call'.job_number
              running == {core_arr[i] : i \in CoreIds} \ {NULL}
          IN  /\ call'.ret = NONE
              /\ core_arr' = core_arr
              /\ CoreNumbersKept
              /\ \A p \in DOMAIN mem : mem'[p].start_time = mem[p].start_time
              /\ DOMAIN mem' = DOMAIN mem \cup {a}
              /\ Stored(queue') = Stored(queue) \cup {a}
              /\ Len(queue') = Len(queue) + 1
              /\ mem'[a].core_number = NONE
              /\ mem'[a].start_time = NONE
              /\ \A p \in DOMAIN mem :
                   \/ mem'[p] = mem[p]
                   \/ /\ scheme = "PSJF"
                      /\ p \in running
                      /\ mem'[p] = [mem[p] EXCEPT
                           !.remaining_time = mem'[p].remaining_time,
                           !.last_updated_time = mem'[p].last_updated_time]
              /\ UNCHANGED <<total_waiting_time, total_response_time,
                             total_turnaround_time, total_finished_jobs>>]_vars

\* under PSJF a job arrived behind as many jobs as there are cores and was
\* left waiting, while a running job's remaining_time was brought up to date
C20_Witness ==
  /\ call.op = "new_job"
  /\ scheme = "PSJF"
  /\ call.ret = NONE
  /\ Rank(queue, call.job_number) >= cores
  /\ mem[call.job_number].core_number = NONE
  /\ \E i \in CoreIds :
       /\ core_arr[i] # NULL
       /\ mem[core_arr[i]].last_updated_time = now
       /\ mem[core_arr[i]].start_time < now
       /\ mem[core_arr[i]].remaining_time < mem[core_arr[i]].running_time

----------------------------------------------------------------------------
(* C21 *)

\* C21: after every handler call the store is sorted by the scheme's
\* comparer: for every two adjacent entries x, y (x before y),
\* comparer(x, y) <= 0 on the fields the jobs have now.
C21_StoreSorted ==
  \A k \in 1 .. (Len(queue) - 1) :
    comparer(scheme, mem[queue[k]], mem[queue[k + 1]]) <= 0

----------------------------------------------------------------------------
(* C22 *)

\* the job_t objects that exist before and after the step
Surviving == {p \in LiveJobs : p \in DOMAIN mem'}

\* job p is running before the step and waiting after it
IsEvicted(p) == mem[p].core_number # NONE /\ mem'[p].core_number = NONE

\* C22 as stated: once a job's start_time holds a time it never changes.
C22_StartTimeSetOnce ==
  [][\A p \in Surviving :
       mem[p].start_time # NONE
         => mem'[p].start_time = mem[p].start_time]_vars

\* C22 as amended: a start_time that holds a time changes in one case only:
\* a new_job call that evicts the job at the very time it was started resets
\* it to -1; in every other step it stays as it is.
C22_StartTimeKept ==
  [][\A p \in Surviving :
       mem[p].start_time # NONE
         => IF IsNewJobStep /\ IsEvicted(p) /\ mem[p].start_time = now'
              THEN mem'[p].start_time = NONE
              ELSE mem'[p].start_time = mem[p].start_time]_vars

\* a job that had been started at the present time has just lost its core
\* to an arrival and has no start_time any more
C22_Witness ==
  /\ call.op = "new_job"
  /\ call.ret # NONE
  /\ \E w \in LiveJobs :
       /\ mem[w].core_number = NONE
       /\ mem[w].last_updated_time = now
       /\ mem[w].start_time = NONE

----------------------------------------------------------------------------
(* C23 *)

\* C23: under FCFS, SJF, PRI, PPRI and RR every live job's remaining_time
\* equals its running_time at all times, and under every scheme job_finished
\* and quantum_expired leave every job's remaining_time as it was.
C23_RemainingOnlyPsjf ==
  /\ [](scheme # "PSJF"
          => \A j \in LiveJobs : mem[j].remaining_time = mem[j].running_time)
  /\ [][call'.op \in {"job_finished", "quantum_expired"}
          => \A p \in Surviving :
               mem'[p].remaining_time = mem[p].remaining_time]_vars

\* under PSJF a job has just finished and another job is promoted to its
\* core with part of its service already used up
C23_Witness ==
  /\ call.op = "job_finished"
  /\ scheme = "PSJF"
  /\ call.ret # NONE
  /\ \E j \in LiveJobs :
       /\ mem[j].id = call.ret
       /\ mem[j].core_number = call.core_id
       /\ mem[j].remaining_time < mem[j].running_time

----------------------------------------------------------------------------
(* C24 *)

\* C24: after every handler call, if some core slot is empty then nothing
\* waits: every live job and every entry of the store has a core; and a
\* new_job call made while a core is idle never returns -1.
C24_WorkConserving ==
  /\ []((\E i \in CoreIds : core_arr[i] = NULL)
          => /\ \A j \in LiveJobs : mem[j].core_number # NONE
             /\ \A k \in 1 .. Len(queue) : mem[queue[k]].core_number # NONE)
  /\ [][(IsNewJobStep /\ ~AllBusy(core_arr)) => call'.ret # NONE]_vars

\* a job has just finished on one of two cores with nobody waiting: the core
\* stays idle while the other core's job is still in the store
C24_Witness ==
  /\ call.op = "job_finished"
  /\ call.ret = NONE
  /\ core_arr[call.core_id] = NULL
  /\ Len(queue) >= 1
  /\ \E i \in CoreIds : core_arr[i] # NULL

----------------------------------------------------------------------------
(* C25 *)

\* C25: under PSJF with two or more cores the job that job_finished
\* promotes has the smallest remaining_time among the waiting jobs (ties by
\* earliest arrival), and after every handler call no waiting job has a
\* strictly smaller remaining_time than a running job.
C25_PsjfShortestFirst ==
  /\ []((scheme = "PSJF" /\ cores >= 2)
          => \A w \in LiveJobs, i \in CoreIds :
               (mem[w].core_number = NONE /\ core_arr[i] # NULL)
                 => mem[w].remaining_time
                      >= mem[core_arr[i]].remaining_time)
  /\ [][(/\ IsJobFinishedStep
         /\ scheme = "PSJF"
         /\ cores >= 2
         /\ call'.ret # NONE)
          => LET j == core_arr'[call'.core_id]
             IN  \A w \in Surviving :
                   mem[w].core_number = NONE
                     => comparer("PSJF", mem[j], mem[w]) <= 0]_vars

----------------------------------------------------------------------------
(* C26 *)

\* C26: under PPRI, after every handler call, no waiting job has a strictly
\* smaller priority value than a running job.
C26_NoPriorityInversion ==
  scheme = "PPRI"
    => \A w \in LiveJobs, i \in CoreIds :
         (mem[w].core_number = NONE /\ core_arr[i] # NULL)
           => mem[w].priority >= mem[core_arr[i]].priority

\* under PPRI a job has just finished and the waiting job of smaller
\* priority value was promoted past one of larger priority value, which
\* still waits
C26_Witness ==
  /\ call.op = "job_finished"
  /\ scheme = "PPRI"
  /\ call.ret # NONE
  /\ \E w \in LiveJobs :
       /\ mem[w].core_number = NONE
       /\ mem[w].priority > mem[core_arr[call.core_id]].priority

----------------------------------------------------------------------------
(* C27 *)

\* C27: under RR quantum_expired on a busy core never returns -1 and never
\* leaves the core empty; when nothing else waits it returns the id of the
\* job whose quantum expired, and that job runs on core_id again with its
\* start_time as it was.
C27_QuantumKeepsCoreBusy ==
  [][IsQuantumStep
       => LET c == call'.core_id
              p == core_arr[c]
          IN  /\ call'.ret # NONE
              /\ core_arr'[c] # NULL
              /\ WaitingAt(mem, queue) = {}
                   => /\ call'.ret = mem[p].id
                      /\ core_arr'[c] = p
                      /\ mem'[p].core_number = c
                      /\ mem'[p].start_time = mem[p].start_time]_vars

----------------------------------------------------------------------------
(* C28 *)

\* C28: when the driver delivers job_finished for every running job, every
\* job that has arrived gets a core and finishes, and in the end the store is
\* empty, every core slot is empty and total_finished_jobs is the number of
\* jobs that arrived.
C28_AllJobsFinish ==
  /\ [][\A j \in LiveJobs : j \notin LiveJobs' => mem[j].core_number # NONE]_vars
  /\ \A j \in 0 .. (MaxJobsLive - 1) : (j \in LiveJobs) ~> (j \notin LiveJobs)
  /\ <>[](/\ queue = << >>
          /\ \A i \in CoreIds : core_arr[i] = NULL
          /\ total_finished_jobs = njobs)

============================================================================
